---- MODULE Spec2Model ----
(***************************************************************************)
(* EduSmart (src/edusmart.py): a Streamlit school-management application.  *)
(* The model covers the configuration read at import time, the relational  *)
(* schema created by init_db, the data-access functions, the upload        *)
(* helpers, the session state of each browser session and main()'s         *)
(* role-gated page dispatch.                                               *)
(***************************************************************************)
EXTENDS Integers, FiniteSets, Sequences, TLC

\* ------------------------------------------------------------------ bounds
\* Number of browser sessions (each runs main() on every interaction).
NSessions == 1
\* Number of sessions whose runs of main() interleave in SpecConcurrent.
NConcurrent == 2
\* Number of distinct clock seconds handle_logo_upload can observe.
MaxClock == 1
\* Number of rows the statements of SpecSchema may add to etablissement and classes.
MaxRows == 2
\* Number of rows they may add to each of the other tables.
MaxLeafRows == 1
\* Number of objects the upload helpers may add to the cloud store.
MaxCloud == 2

\* --------------------------------------------------------- program constants
\* main(): the registration page is offered while etablissements_count < 5.
MaxEtablissements == 5
\* matieres.note_de_passage REAL DEFAULT 65.0
DefaultNoteDePassage == 65
\* SQL NULL in an INTEGER column (row ids start at 1).
NULL == 0
\* Python None / SQL NULL in a TEXT column, and a missing st.secrets entry.
None == "None"

VARIABLES
    secrets,        \* st.secrets: DATABASE_URL and the three Cloudinary settings
    db,             \* the database get_conn() connects to: schema flag, tables, SERIAL sequences
    storage,        \* upload directories, files on local disk, objects in the cloud store
    session_state,  \* st.session_state of each session
    run,            \* each session's position in main() and its etablissements_count
    view,           \* what the last run of main() rendered for each session
    trace,          \* which statements the process has executed on which backend
    call            \* the last direct call of a helper function and what it returned

vars == <<secrets, db, storage, session_state, run, view, trace, call>>

\* The sessions connected to the server.
Sessions == DOMAIN run

\* ------------------------------------------------------------ configuration
Truthy(x) == x \notin {"", None}

DATABASE_URL == secrets.DATABASE_URL
CLOUDINARY_CLOUD_NAME == secrets.CLOUDINARY_CLOUD_NAME
CLOUDINARY_API_KEY == secrets.CLOUDINARY_API_KEY
CLOUDINARY_API_SECRET == secrets.CLOUDINARY_API_SECRET

\* cloudinary.config(...) is called only when all three settings are present.
cloudinary_configured ==
    Truthy(CLOUDINARY_CLOUD_NAME) /\ Truthy(CLOUDINARY_API_KEY) /\ Truthy(CLOUDINARY_API_SECRET)

LOCAL_STORAGE_MODE == ~(Truthy(DATABASE_URL) /\ Truthy(CLOUDINARY_CLOUD_NAME))

\* get_conn(): PostgreSQL when DATABASE_URL is set, the SQLite file otherwise.
get_conn == IF Truthy(DATABASE_URL) THEN "postgres" ELSE "sqlite"

\* The data-access functions write their parameters as %s (psycopg2's style).
\* sqlite3 accepts only ? and :name, so such a statement raises
\* OperationalError on a SQLite connection before it reads or writes a row.
ParamQueryRaises == get_conn = "sqlite"

SecretsSpace ==
    [DATABASE_URL : {"", "postgresql://db"},
     CLOUDINARY_CLOUD_NAME : {None, "cloud"},
     CLOUDINARY_API_KEY : {None, "key"},
     CLOUDINARY_API_SECRET : {None, "secret"}]

\* ------------------------------------------------------------------ helpers
\* hash_password: SHA-256 hex digest, modelled as an injective tagging.
hash_password(password) == "sha256:" \o password

Tables == {"etablissement", "abonnements", "users", "classes", "matieres",
           "etudiants", "notes", "modalites_paiement"}

Ids(rows) == {r.id : r \in rows}

\* A reference returned by an upload helper: None, a local path or a secure_url.
NoRef == [kind |-> "none", folder |-> "", name |-> "", n |-> 0]
LocalRef(dir, name) == [kind |-> "local", folder |-> dir, name |-> name, n |-> 0]
CloudRef(folder, n) == [kind |-> "cloud", folder |-> folder, name |-> "", n |-> n]

\* ----------------------------------------------------------------- database
\* Rows keep the columns the operations read: ids, foreign keys, the login
\* columns of users, the logo of etablissement, matieres.note_de_passage and
\* notes.note. annees, paiements and presences are not used by any function.
EmptyTables(schema) ==
    [schema |-> schema,
     etablissement |-> {}, abonnements |-> {}, users |-> {}, classes |-> {},
     matieres |-> {}, etudiants |-> {}, notes |-> {}, modalites_paiement |-> {},
     seq |-> [t \in Tables |-> 0]]

\* A database in which the tables of init_db do not exist yet.
NoSchemaDB == EmptyTables(FALSE)

AdminEmails == <<"adm1", "adm2", "adm3", "adm4", "adm5", "adm6">>

\* Roles main() knows, and one it does not.
KnownRoles == {"admin", "direction", "comptable", "economat", "teacher", "student"}
SeedRoles == KnownRoles \cup {"parent"}

\* A provisioned database: n institutions, each with its admin account; one
\* further account "u" with role r in institution n; a class, a subject and a
\* student in institution 1 and in institution n.
SeedDB(n, r) ==
    IF n = 0 THEN EmptyTables(TRUE)
    ELSE
    [schema |-> TRUE,
     etablissement |-> {[id |-> i, logo |-> NoRef] : i \in 1..n},
     abonnements |-> {[id |-> i, etablissement_id |-> i] : i \in 1..n},
     users |-> {[id |-> i, email |-> AdminEmails[i], password |-> hash_password("pw1"),
                 role |-> "admin", etablissement_id |-> i] : i \in 1..n}
               \cup {[id |-> n + 1, email |-> "u", password |-> hash_password("pw1"),
                      role |-> r, etablissement_id |-> n]},
     classes |-> {[id |-> 1, etablissement_id |-> 1], [id |-> 2, etablissement_id |-> n]},
     matieres |-> {[id |-> 1, classe_id |-> 1, note_de_passage |-> DefaultNoteDePassage],
                   [id |-> 2, classe_id |-> 2, note_de_passage |-> DefaultNoteDePassage]},
     etudiants |-> {[id |-> 1, classe_id |-> 1], [id |-> 2, classe_id |-> 2]},
     notes |-> {[id |-> 1, etudiant_id |-> 1, matiere_id |-> 1, note |-> 70]},
     modalites_paiement |-> {[id |-> i, etablissement_id |-> i] : i \in 1..n},
     seq |-> [t \in Tables |->
                CASE t \in {"etablissement", "abonnements", "modalites_paiement"} -> n
                  [] t = "users" -> n + 1
                  [] t \in {"classes", "matieres", "etudiants"} -> 2
                  [] OTHER -> 1]]

\* init_db(): CREATE TABLE IF NOT EXISTS for every table, then, when
\* LOCAL_STORAGE_MODE, the PRAGMA table_info / ALTER TABLE migration, then
\* commit. PRAGMA is SQLite syntax: on a PostgreSQL connection it raises before
\* the commit, and the transaction's CREATE TABLEs are rolled back.
init_db_raises == LOCAL_STORAGE_MODE /\ get_conn = "postgres"
init_db_result == IF init_db_raises THEN db ELSE [db EXCEPT !.schema = TRUE]

\* get_etablissement_count(): SELECT COUNT(*) FROM etablissement.
get_etablissement_count(d) == Cardinality(d.etablissement)

\* get_user_by_email(email): fetchone() of SELECT * FROM users WHERE email = %s.
\* The result is a set holding the row, or empty for None (email is UNIQUE).
get_user_by_email(email) == {u \in db.users : u.email = email}

\* ----------------------------------------------------------------- sessions
\* st.session_state as the set of keys present and the values of the login keys.
EmptySession == [keys |-> {}, user_id |-> NULL, user_role |-> None, etablissement_id |-> NULL]

\* login_page(): the four assignments made from the matching user row.
LoggedInAs(ss, user) ==
    [keys |-> ss.keys \cup {"logged_in", "user_id", "user_role", "etablissement_id"},
     user_id |-> user.id, user_role |-> user.role,
     etablissement_id |-> user.etablissement_id]

Idle == [pc |-> "idle", etablissements_count |-> 0]

\* What a run shows: the page handler entered, the message it ended with, the
\* credentials typed into login_page, and the subject statuses it wrote.
View(page, msg, email, password) ==
    [page |-> page, msg |-> msg, email |-> email, password |-> password, statuses |-> {}]
Blank == View("none", "", "", "")

LoggedIn(s) == "logged_in" \in session_state[s].keys

\* -------------------------------------------------------------------- main()
\* The handlers main() may dispatch to for a role, given the count read at the
\* start of the run. The empty set stands for the early return of the else branch.
RolePages(user_role) ==
    CASE user_role \in {"admin", "direction"} ->
            {"page_dashboard", "page_classes", "page_etudiants", "page_notes",
             "page_presences", "page_bulletins", "page_listes"}
      [] user_role \in {"comptable", "economat"} ->
            {"page_dashboard", "page_modalites", "page_paiements", "page_listes"}
      [] user_role = "teacher" ->
            {"page_classes", "page_matieres", "page_etudiants", "page_notes",
             "page_presences", "page_bulletins", "page_listes"}
      [] user_role = "student" -> {"page_bulletins", "page_listes"}
      [] OTHER -> {}

AllPages == UNION {RolePages(r) : r \in KnownRoles} \cup {"page_inscription"}

InscriptionOffered(etablissements_count) == etablissements_count < MaxEtablissements

\* pages without the early return of the else branch.
pages_without_return(etablissements_count, user_role) ==
    RolePages(user_role) \cup
    (IF InscriptionOffered(etablissements_count) THEN {"page_inscription"} ELSE {})

pages(etablissements_count, user_role) ==
    IF RolePages(user_role) = {} THEN {}
    ELSE RolePages(user_role) \cup
         (IF InscriptionOffered(etablissements_count) THEN {"page_inscription"} ELSE {})

\* main(), lines 453-457: init_db() and ensure_dirs() when LOCAL_STORAGE_MODE,
\* then get_etablissement_count(). An exception ends the run.
MainStart(s) ==
    /\ run[s].pc = "idle"
    /\ LET ran == LOCAL_STORAGE_MODE
           d == IF ran THEN init_db_result ELSE db
           tr1 == IF ran
                  THEN [trace EXCEPT !.sqlite_only_on = @ \cup {get_conn},
                                     !.init_db_done = @ \/ ~init_db_raises]
                  ELSE trace
       IN IF ran /\ init_db_raises
          THEN /\ trace' = tr1
               /\ view' = [view EXCEPT ![s] = View("none", "exception", "", "")]
               /\ UNCHANGED <<db, storage, run>>
          ELSE /\ db' = d
               /\ storage' = IF ran THEN [storage EXCEPT !.dirs = TRUE] ELSE storage
               /\ trace' = [tr1 EXCEPT !.query_before_init = @ \/ ~tr1.init_db_done]
               /\ IF d.schema
                  THEN /\ run' = [run EXCEPT ![s] =
                                    [pc |-> "running",
                                     etablissements_count |-> get_etablissement_count(d)]]
                       /\ view' = [view EXCEPT ![s] = Blank]
                  ELSE /\ view' = [view EXCEPT ![s] = View("none", "exception", "", "")]
                       /\ UNCHANGED run
    /\ UNCHANGED <<secrets, session_state, call>>

\* ------------------------------------------------------------ upload helpers
UPLOAD_DIR_PHOTOS == "uploads/photos"
UPLOAD_DIR_DOCS == "uploads/docs"
UPLOAD_DIR_LOGO == "uploads/logo"

\* The outcome of one upload helper call: the reference returned, the storage
\* afterwards, whether cloudinary.uploader.upload was called, whether the
\* helper raised instead of returning, and the places the file was written to.
Outcome(ref, st, remote, raised, stored) ==
    [ref |-> ref, storage |-> st, remote |-> remote, raised |-> raised, stored |-> stored]

\* The branch `if not LOCAL_STORAGE_MODE` of the three helpers.
UseRemote == ~LOCAL_STORAGE_MODE

\* cloudinary.uploader.upload succeeds only with a configured client and a
\* working network (net_ok); any exception is caught and the helper returns None.
CloudUpload(st, folder, n, net_ok) ==
    IF cloudinary_configured /\ net_ok
    THEN Outcome(CloudRef(folder, n),
                 [st EXCEPT !.cloud = @ \cup {[folder |-> folder, n |-> n]}],
                 TRUE, FALSE, {"cloud"})
    ELSE Outcome(NoRef, st, TRUE, FALSE, {})

\* open(os.path.join(dir, uploaded_file.name), "wb"): needs the directory.
LocalWrite(st, dir, file) ==
    IF st.dirs
    THEN Outcome(LocalRef(dir, file),
                 [st EXCEPT !.disk = @ \cup {[folder |-> dir, name |-> file]}],
                 FALSE, FALSE, {"disk"})
    ELSE Outcome(NoRef, st, FALSE, TRUE, {})

\* The object id Cloudinary generates when the caller gives no public_id.
FreshId(st) == st.seq + 1

\* An upload without public_id: a stored object takes the next generated id.
CloudUploadFresh(st, folder, net_ok) ==
    LET out == CloudUpload(st, folder, FreshId(st), net_ok)
    IN IF out.stored = {} THEN out ELSE [out EXCEPT !.storage.seq = FreshId(st)]

handle_photo_upload(st, uploaded_file, net_ok) ==
    IF uploaded_file = None THEN Outcome(NoRef, st, FALSE, FALSE, {})
    ELSE IF UseRemote
         THEN CloudUploadFresh(st, "photos", net_ok)
         ELSE LocalWrite(st, UPLOAD_DIR_PHOTOS, uploaded_file)

handle_doc_upload(st, uploaded_file, net_ok) ==
    IF uploaded_file = None THEN Outcome(NoRef, st, FALSE, FALSE, {})
    ELSE IF UseRemote
         THEN CloudUploadFresh(st, "docs", net_ok)
         ELSE LocalWrite(st, UPLOAD_DIR_DOCS, uploaded_file)

\* public_id = "logo_" + the current second (now).
handle_logo_upload(st, uploaded_file, now, net_ok) ==
    IF uploaded_file = None THEN Outcome(NoRef, st, FALSE, FALSE, {})
    ELSE IF UseRemote
         THEN CloudUpload(st, "logo", now, net_ok)
         ELSE LocalWrite(st, UPLOAD_DIR_LOGO, uploaded_file)

\* ------------------------------------------------------------ login / logout
\* login_page(): `user and user[2] == hash_password(password)`.
PasswordMatches_any(user, password) == TRUE
PasswordMatches(user, password) == user.password = hash_password(password)

\* login_page() rendered without pressing "Se connecter".
LoginPageShown(s) ==
    /\ run[s].pc = "running"
    /\ ~LoggedIn(s)
    /\ view' = [view EXCEPT ![s] = View("login_page", "", "", "")]
    /\ run' = [run EXCEPT ![s] = Idle]
    /\ UNCHANGED <<secrets, db, storage, session_state, trace, call>>

\* login_page() with "Se connecter" pressed.
LoginSubmit(s, email, password) ==
    /\ run[s].pc = "running"
    /\ ~LoggedIn(s)
    /\ run' = [run EXCEPT ![s] = Idle]
    /\ IF ParamQueryRaises
       THEN /\ view' = [view EXCEPT ![s] = View("login_page", "exception", email, password)]
            /\ UNCHANGED session_state
       ELSE LET found == get_user_by_email(email)
            IN IF found # {} /\ PasswordMatches(CHOOSE u \in found : TRUE, password)
               THEN /\ session_state' =
                        [session_state EXCEPT ![s] =
                            LoggedInAs(@, CHOOSE u \in found : TRUE)]
                    /\ view' = [view EXCEPT ![s] = View("login_page", "success", email, password)]
               ELSE /\ view' = [view EXCEPT ![s] = View("login_page", "error", email, password)]
                    /\ UNCHANGED session_state
    /\ UNCHANGED <<secrets, db, storage, trace, call>>

\* main(): the "Déconnexion" button: session_state.clear() and a rerun.
Logout(s) ==
    /\ run[s].pc = "running"
    /\ LoggedIn(s)
    /\ session_state' = [session_state EXCEPT ![s] = EmptySession]
    /\ view' = [view EXCEPT ![s] = View("none", "logout", "", "")]
    /\ run' = [run EXCEPT ![s] = Idle]
    /\ UNCHANGED <<secrets, db, storage, trace, call>>

\* ------------------------------------------------------------------ dispatch
SessionPages(s) == pages(run[s].etablissements_count, session_state[s].user_role)

\* main(): the else branch: st.warning and return, no page is dispatched.
NoPages(s) ==
    /\ run[s].pc = "running"
    /\ LoggedIn(s)
    /\ SessionPages(s) = {}
    /\ view' = [view EXCEPT ![s] = View("none", "warning", "", "")]
    /\ run' = [run EXCEPT ![s] = Idle]
    /\ UNCHANGED <<secrets, db, storage, session_state, trace, call>>

\* main(): pages[choix]() for one of the ten stub handlers, each of which
\* writes a title and one line of text.
RenderPage(s, choix) ==
    /\ run[s].pc = "running"
    /\ LoggedIn(s)
    /\ choix \in SessionPages(s)
    /\ choix # "page_inscription"
    /\ view' = [view EXCEPT ![s] = View(choix, "", "", "")]
    /\ run' = [run EXCEPT ![s] = Idle]
    /\ UNCHANGED <<secrets, db, storage, session_state, trace, call>>

\* -------------------------------------------------------------- registration
\* add_etablissement: INSERT ... RETURNING id, committed on its own connection.
add_etablissement(d, logo) ==
    LET id == d.seq["etablissement"] + 1
    IN [d EXCEPT !.etablissement = @ \cup {[id |-> id, logo |-> logo]},
                 !.seq["etablissement"] = id]

\* create_user raises when the email is already taken (users.email is UNIQUE).
create_user_raises(d, email) == \E u \in d.users : u.email = email

\* create_user: INSERT INTO users, committed on its own connection. A failed
\* INSERT still consumes a value of the SERIAL sequence.
create_user(d, email, password, role, etablissement_id) ==
    LET id == d.seq["users"] + 1
    IN IF create_user_raises(d, email)
       THEN [d EXCEPT !.seq["users"] = id]
       ELSE [d EXCEPT !.users = @ \cup {[id |-> id, email |-> email,
                                          password |-> hash_password(password),
                                          role |-> role,
                                          etablissement_id |-> etablissement_id]},
                      !.seq["users"] = id]

\* page_inscription() rendered without submitting the form.
InscriptionShown(s) ==
    /\ run[s].pc = "running"
    /\ LoggedIn(s)
    /\ "page_inscription" \in SessionPages(s)
    /\ view' = [view EXCEPT ![s] = View("page_inscription", "", "", "")]
    /\ run' = [run EXCEPT ![s] = Idle]
    /\ UNCHANGED <<secrets, db, storage, session_state, trace, call>>

\* page_inscription() with the form submitted. A field left empty is "";
\* adresse, telephone and email_etab are stored unread.
InscriptionSubmit(s, form, now, net_ok) ==
    /\ run[s].pc = "running"
    /\ LoggedIn(s)
    /\ "page_inscription" \in SessionPages(s)
    /\ run' = [run EXCEPT ![s] = Idle]
    /\ IF ~(Truthy(form.nom_etab) /\ Truthy(form.directeur_etab)
            /\ Truthy(form.email_admin) /\ Truthy(form.password_admin))
       THEN /\ view' = [view EXCEPT ![s] = View("page_inscription", "missing_fields", "", "")]
            /\ UNCHANGED <<db, storage, session_state>>
       ELSE LET up == handle_logo_upload(storage, form.logo_upload, now, net_ok)
                d1 == add_etablissement(db, up.ref)
                etablissement_id == d1.seq["etablissement"]
            IN /\ ~up.raised
               /\ storage' = up.storage
               /\ IF ParamQueryRaises
                  THEN /\ view' = [view EXCEPT ![s] = View("page_inscription", "error", "", "")]
                       /\ UNCHANGED <<db, session_state>>
                  ELSE /\ db' = create_user(d1, form.email_admin, form.password_admin, "admin",
                                            etablissement_id)
                       /\ IF create_user_raises(d1, form.email_admin)
                          THEN /\ view' = [view EXCEPT ![s] =
                                             View("page_inscription", "error", "", "")]
                               /\ UNCHANGED session_state
                          ELSE /\ view' = [view EXCEPT ![s] =
                                             View("page_inscription", "success", "", "")]
                               /\ session_state' =
                                    [session_state EXCEPT ![s].keys = @ \cup {"show_login"}]
    /\ UNCHANGED <<secrets, trace, call>>

\* ------------------------------------------------------------ specification
NoCall == [fn |-> "", caller |-> NULL, file |-> None, ref |-> NoRef, remote |-> FALSE,
           raised |-> FALSE, stored |-> {}, owners |-> {}]

InitWith(configs, dbs, S) ==
    /\ secrets \in configs
    /\ db \in dbs
    /\ storage = [dirs |-> FALSE, disk |-> {}, cloud |-> {}, seq |-> 0]
    /\ session_state = [s \in S |-> EmptySession]
    /\ run = [s \in S |-> Idle]
    /\ view = [s \in S |-> Blank]
    /\ trace = [init_db_done |-> FALSE, sqlite_only_on |-> {}, query_before_init |-> FALSE]
    /\ call = NoCall

\* The databases the application may be started on: none yet, an empty one,
\* and one provisioned up to one institution below the registration cap.
SeedDBs ==
    {NoSchemaDB, EmptyTables(TRUE)} \cup {SeedDB(MaxEtablissements - 1, r) : r \in SeedRoles}

Init == InitWith(SecretsSpace, SeedDBs, 1..NSessions)

TypedEmails == {"u", "new"}
TypedPasswords == {"pw1", "pw2"}
Files == {None, "a.png"}
\* The fields of form_inscription that page_inscription reads.
FormInputs ==
    [nom_etab : {"", "Ecole"}, directeur_etab : {"", "Dir"},
     email_admin : {""} \cup TypedEmails, password_admin : {"", "pw2"},
     logo_upload : Files]

\* One step of session s: a run of main() starts, or the run in progress ends
\* in login_page, the logout, the warning or a page handler.
Step(s) ==
        \/ MainStart(s)
        \/ LoginPageShown(s)
        \/ \E email \in TypedEmails, password \in TypedPasswords :
              LoginSubmit(s, email, password)
        \/ Logout(s)
        \/ NoPages(s)
        \/ \E choix \in AllPages : RenderPage(s, choix)
        \/ InscriptionShown(s)
        \/ \E form \in FormInputs, now \in 1..MaxClock, net_ok \in BOOLEAN :
              InscriptionSubmit(s, form, now, net_ok)

Next == \E s \in 1..NSessions : Step(s)

Spec == Init /\ [][Next]_vars

\* Several sessions against one database: the runs of main() interleave
\* between the count read at the start of a run and the handler dispatched.
InitConcurrent == InitWith(SecretsSpace, SeedDBs, 1..NConcurrent)
NextConcurrent == \E s \in 1..NConcurrent : Step(s)
SpecConcurrent == InitConcurrent /\ [][NextConcurrent]_vars

\* --------------------------------------------------- direct calls: uploads
\* A page handler calling an upload helper during a run of main().
UploadCall(fn, file, out) ==
    [NoCall EXCEPT !.fn = fn, !.file = file, !.ref = out.ref, !.remote = out.remote,
                   !.raised = out.raised, !.stored = out.stored]

HandlePhotoUpload(s, uploaded_file, net_ok) ==
    /\ run[s].pc = "running"
    /\ LET out == handle_photo_upload(storage, uploaded_file, net_ok)
       IN /\ out.storage.seq <= MaxCloud
          /\ storage' = out.storage
          /\ call' = UploadCall("handle_photo_upload", uploaded_file, out)
    /\ UNCHANGED <<secrets, db, session_state, run, view, trace>>

HandleDocUpload(s, uploaded_file, net_ok) ==
    /\ run[s].pc = "running"
    /\ LET out == handle_doc_upload(storage, uploaded_file, net_ok)
       IN /\ out.storage.seq <= MaxCloud
          /\ storage' = out.storage
          /\ call' = UploadCall("handle_doc_upload", uploaded_file, out)
    /\ UNCHANGED <<secrets, db, session_state, run, view, trace>>

HandleLogoUpload(s, uploaded_file, now, net_ok) ==
    /\ run[s].pc = "running"
    /\ LET out == handle_logo_upload(storage, uploaded_file, now, net_ok)
       IN /\ storage' = out.storage
          /\ call' = UploadCall("handle_logo_upload", uploaded_file, out)
    /\ UNCHANGED <<secrets, db, session_state, run, view, trace>>

UploadStep(s) ==
        \/ MainStart(s)
        \/ \E f \in Files, net_ok \in BOOLEAN : HandlePhotoUpload(s, f, net_ok)
        \/ \E f \in Files, net_ok \in BOOLEAN : HandleDocUpload(s, f, net_ok)
        \/ \E f \in Files, now \in 1..MaxClock, net_ok \in BOOLEAN :
              HandleLogoUpload(s, f, now, net_ok)

NextUpload == \E s \in 1..NSessions : UploadStep(s)

InitUpload == InitWith(SecretsSpace, {NoSchemaDB, EmptyTables(TRUE)}, 1..NSessions)
SpecUpload == InitUpload /\ [][NextUpload]_vars

\* ----------------------------------------------- direct calls: data access
\* The institution a row belongs to, NULL when it has none.
OwnerOfClasse(classe_id) ==
    LET cs == {c \in db.classes : c.id = classe_id}
    IN IF cs = {} THEN NULL ELSE (CHOOSE c \in cs : TRUE).etablissement_id

\* SELECT id, nom, niveau FROM classes WHERE etablissement_id = %s
get_classes_etablissement(etablissement_id) ==
    {c \in db.classes : c.etablissement_id = etablissement_id}
\* SELECT * FROM etudiants WHERE classe_id = %s
get_etudiants_par_classe(classe_id) == {e \in db.etudiants : e.classe_id = classe_id}
\* SELECT id, nom, coefficient FROM matieres WHERE classe_id = %s
get_matieres_classe(classe_id) == {m \in db.matieres : m.classe_id = classe_id}
\* SELECT nom, ... FROM etablissement WHERE id = %s
get_etablissement_info(etablissement_id) ==
    {e \in db.etablissement : e.id = etablissement_id}

\* The institutions owning the rows a data-access function returns for id.
OwnersRead(fn, id) ==
    CASE fn = "get_classes_etablissement" ->
            {c.etablissement_id : c \in get_classes_etablissement(id)}
      [] fn = "get_etudiants_par_classe" ->
            {OwnerOfClasse(e.classe_id) : e \in get_etudiants_par_classe(id)}
      [] fn = "get_matieres_classe" ->
            {OwnerOfClasse(m.classe_id) : m \in get_matieres_classe(id)}
      [] fn = "get_etablissement_info" ->
            {e.id : e \in get_etablissement_info(id)}

IdReaders == {"get_classes_etablissement", "get_etudiants_par_classe",
              "get_matieres_classe", "get_etablissement_info"}

\* A logged-in session's page calling a data-access function with an identifier.
ReadById(s, fn, id) ==
    /\ run[s].pc = "running"
    /\ LoggedIn(s)
    /\ call' = [NoCall EXCEPT !.fn = fn, !.caller = session_state[s].etablissement_id,
                              !.raised = ParamQueryRaises,
                              !.owners = IF ParamQueryRaises THEN {} ELSE OwnersRead(fn, id)]
    /\ UNCHANGED <<secrets, db, storage, session_state, run, view, trace>>

ReadUserByEmail(s, email) ==
    /\ run[s].pc = "running"
    /\ LoggedIn(s)
    /\ call' = [NoCall EXCEPT !.fn = "get_user_by_email",
                              !.caller = session_state[s].etablissement_id,
                              !.raised = ParamQueryRaises,
                              !.owners = IF ParamQueryRaises THEN {}
                                         ELSE {u.etablissement_id : u \in get_user_by_email(email)}]
    /\ UNCHANGED <<secrets, db, storage, session_state, run, view, trace>>

\* Identifiers a caller may pass: every id a table can hold, and one beyond.
IdInputs == 1..(MaxEtablissements + 1)

AccessStep(s) ==
        \/ Step(s)
        \/ \E fn \in IdReaders, id \in IdInputs : ReadById(s, fn, id)
        \/ \E email \in TypedEmails \cup {"adm1"} : ReadUserByEmail(s, email)

NextAccess == \E s \in 1..NSessions : AccessStep(s)

SpecAccess == Init /\ [][NextAccess]_vars

\* ------------------------------------------------- statements on the schema
\* The tables of init_db under the statements the schema admits. PostgreSQL
\* enforces the REFERENCES clauses: an INSERT whose foreign key is neither NULL
\* nor the id of an existing row raises, and a DELETE applies ON DELETE CASCADE
\* or SET NULL. The statement-level actions are modelled for PostgreSQL, the
\* backend whose SERIAL columns the DDL is written for.
FkOk(id, rows) == id = NULL \/ id \in Ids(rows)
FkOkNotNull(id, rows) == id \in Ids(rows)

NextIdOf(d, t) == d.seq[t] + 1

\* classes.etablissement_id INTEGER REFERENCES etablissement(id) ON DELETE CASCADE
insert_classe(d, etablissement_id) ==
    [d EXCEPT !.classes = @ \cup {[id |-> NextIdOf(d, "classes"),
                                   etablissement_id |-> etablissement_id]},
              !.seq["classes"] = NextIdOf(d, "classes")]

\* matieres.classe_id INTEGER REFERENCES classes(id) ON DELETE CASCADE
insert_matiere(d, classe_id) ==
    [d EXCEPT !.matieres = @ \cup {[id |-> NextIdOf(d, "matieres"), classe_id |-> classe_id,
                                    note_de_passage |-> DefaultNoteDePassage]},
              !.seq["matieres"] = NextIdOf(d, "matieres")]

\* modalites_paiement.etablissement_id INTEGER NOT NULL REFERENCES etablissement(id)
insert_modalite(d, etablissement_id) ==
    [d EXCEPT !.modalites_paiement = @ \cup {[id |-> NextIdOf(d, "modalites_paiement"),
                                              etablissement_id |-> etablissement_id]},
              !.seq["modalites_paiement"] = NextIdOf(d, "modalites_paiement")]

\* add_etudiant: INSERT INTO etudiants (..., classe_id) VALUES (...). On
\* PostgreSQL a rejected INSERT has already drawn its id from the sequence.
add_etudiant_raises(d, classe_id) == ParamQueryRaises \/ ~FkOk(classe_id, d.classes)
add_etudiant(d, classe_id) ==
    IF ParamQueryRaises THEN d
    ELSE IF add_etudiant_raises(d, classe_id)
    THEN [d EXCEPT !.seq["etudiants"] = NextIdOf(d, "etudiants")]
    ELSE [d EXCEPT !.etudiants = @ \cup {[id |-> NextIdOf(d, "etudiants"),
                                          classe_id |-> classe_id]},
                   !.seq["etudiants"] = NextIdOf(d, "etudiants")]

\* add_note: INSERT INTO notes (etudiant_id, matiere_id, ..., note) VALUES (...).
add_note_raises(d, etudiant_id, matiere_id) ==
    ParamQueryRaises \/ ~FkOk(etudiant_id, d.etudiants) \/ ~FkOk(matiere_id, d.matieres)
add_note(d, etudiant_id, matiere_id, note) ==
    IF ParamQueryRaises THEN d
    ELSE IF add_note_raises(d, etudiant_id, matiere_id)
    THEN [d EXCEPT !.seq["notes"] = NextIdOf(d, "notes")]
    ELSE [d EXCEPT !.notes = @ \cup {[id |-> NextIdOf(d, "notes"),
                                      etudiant_id |-> etudiant_id,
                                      matiere_id |-> matiere_id, note |-> note]},
                   !.seq["notes"] = NextIdOf(d, "notes")]

\* DELETE FROM matieres: notes.matiere_id ON DELETE CASCADE.
delete_matieres(d, ids) ==
    [d EXCEPT !.matieres = {m \in @ : m.id \notin ids},
              !.notes = {n \in @ : n.matiere_id \notin ids}]

\* DELETE FROM etudiants: notes.etudiant_id ON DELETE CASCADE.
delete_etudiants(d, ids) ==
    [d EXCEPT !.etudiants = {e \in @ : e.id \notin ids},
              !.notes = {n \in @ : n.etudiant_id \notin ids}]

\* DELETE FROM classes: matieres.classe_id ON DELETE CASCADE,
\* etudiants.classe_id ON DELETE SET NULL.
delete_classes(d, ids) ==
    LET d1 == delete_matieres(d, {m.id : m \in {x \in d.matieres : x.classe_id \in ids}})
    IN [d1 EXCEPT !.classes = {c \in @ : c.id \notin ids},
                  !.etudiants = {IF e.classe_id \in ids
                                 THEN [e EXCEPT !.classe_id = NULL] ELSE e : e \in @}]

\* DELETE FROM etablissement: abonnements, users, classes and
\* modalites_paiement reference it ON DELETE CASCADE.
delete_etablissement(d, id) ==
    LET d1 == delete_classes(d, {c.id : c \in {x \in d.classes : x.etablissement_id = id}})
    IN [d1 EXCEPT !.etablissement = {e \in @ : e.id # id},
                  !.abonnements = {a \in @ : a.etablissement_id # id},
                  !.users = {u \in @ : u.etablissement_id # id},
                  !.modalites_paiement = {m \in @ : m.etablissement_id # id}]

RowCap(t) ==
    db.seq[t] < (IF t \in {"etablissement", "classes"} THEN MaxRows ELSE MaxLeafRows)

AddEtablissement ==
    /\ db.schema /\ ~ParamQueryRaises /\ RowCap("etablissement")
    /\ db' = add_etablissement(db, NoRef)
    /\ UNCHANGED <<secrets, storage, session_state, run, view, trace, call>>

InsertClasse(etablissement_id) ==
    /\ db.schema /\ get_conn = "postgres" /\ RowCap("classes")
    /\ FkOk(etablissement_id, db.etablissement)
    /\ db' = insert_classe(db, etablissement_id)
    /\ UNCHANGED <<secrets, storage, session_state, run, view, trace, call>>

InsertMatiere(classe_id) ==
    /\ db.schema /\ get_conn = "postgres" /\ RowCap("matieres")
    /\ FkOk(classe_id, db.classes)
    /\ db' = insert_matiere(db, classe_id)
    /\ UNCHANGED <<secrets, storage, session_state, run, view, trace, call>>

InsertModalite(etablissement_id) ==
    /\ db.schema /\ get_conn = "postgres" /\ RowCap("modalites_paiement")
    /\ FkOkNotNull(etablissement_id, db.etablissement)
    /\ db' = insert_modalite(db, etablissement_id)
    /\ UNCHANGED <<secrets, storage, session_state, run, view, trace, call>>

AddEtudiant(classe_id) ==
    /\ db.schema /\ RowCap("etudiants")
    /\ db' = add_etudiant(db, classe_id)
    /\ call' = [NoCall EXCEPT !.fn = "add_etudiant",
                              !.raised = add_etudiant_raises(db, classe_id)]
    /\ UNCHANGED <<secrets, storage, session_state, run, view, trace>>

AddNote(etudiant_id, matiere_id, note) ==
    /\ db.schema /\ RowCap("notes")
    /\ db' = add_note(db, etudiant_id, matiere_id, note)
    /\ call' = [NoCall EXCEPT !.fn = "add_note",
                              !.raised = add_note_raises(db, etudiant_id, matiere_id)]
    /\ UNCHANGED <<secrets, storage, session_state, run, view, trace>>

DeleteEtablissement(id) ==
    /\ db.schema /\ get_conn = "postgres" /\ id \in Ids(db.etablissement)
    /\ db' = delete_etablissement(db, id)
    /\ UNCHANGED <<secrets, storage, session_state, run, view, trace, call>>

DeleteClasse(id) ==
    /\ db.schema /\ get_conn = "postgres" /\ id \in Ids(db.classes)
    /\ db' = delete_classes(db, {id})
    /\ UNCHANGED <<secrets, storage, session_state, run, view, trace, call>>

DeleteMatiere(id) ==
    /\ db.schema /\ get_conn = "postgres" /\ id \in Ids(db.matieres)
    /\ db' = delete_matieres(db, {id})
    /\ UNCHANGED <<secrets, storage, session_state, run, view, trace, call>>

DeleteEtudiant(id) ==
    /\ db.schema /\ get_conn = "postgres" /\ id \in Ids(db.etudiants)
    /\ db' = delete_etudiants(db, {id})
    /\ UNCHANGED <<secrets, storage, session_state, run, view, trace, call>>

\* Identifiers a statement may name: NULL, every id a table can hold, one beyond.
RowIds == 1..MaxRows
RefInputs == {NULL} \cup RowIds \cup {MaxRows + 1}

NextSchema ==
    \/ AddEtablissement
    \/ \E e \in RefInputs : InsertClasse(e)
    \/ \E c \in RefInputs : InsertMatiere(c)
    \/ \E e \in RefInputs : InsertModalite(e)
    \/ \E c \in RefInputs : AddEtudiant(c)
    \/ \E e \in RefInputs, m \in RefInputs, note \in {65} : AddNote(e, m, note)
    \/ \E id \in RowIds : DeleteEtablissement(id)
    \/ \E id \in RowIds : DeleteClasse(id)
    \/ \E id \in RowIds : DeleteMatiere(id)
    \/ \E id \in RowIds : DeleteEtudiant(id)

\* Both backends, with the cloud store fully configured.
SchemaConfigs ==
    {c \in SecretsSpace : c.CLOUDINARY_CLOUD_NAME # None /\ c.CLOUDINARY_API_KEY # None
                          /\ c.CLOUDINARY_API_SECRET # None}

InitSchema == InitWith(SchemaConfigs, {EmptyTables(TRUE)}, 1..NSessions)
SpecSchema == InitSchema /\ [][NextSchema]_vars

\* ------------------------------------------------------------------- claims
\* The eleven page handlers main() can put in its pages dictionary.
Handlers ==
    {"page_inscription", "page_dashboard", "page_classes", "page_etudiants", "page_notes",
     "page_modalites", "page_paiements", "page_matieres", "page_presences",
     "page_bulletins", "page_listes"}

\* C1: a session logged in for institution A never obtains, from a data-access
\* call, a row that belongs to another institution: the rows returned all
\* belong to the caller's own institution.
C1_TenantIsolation ==
    call.fn \in IdReaders \cup {"get_user_by_email"} => call.owners \subseteq {call.caller}

\* The page a session shows is one the claim allows for the session's role.
C2_PageAllowed(s) ==
    LET p == view[s].page
        role == session_state[s].user_role
    IN /\ p \in {"page_notes", "page_presences"} => role \in {"admin", "direction", "teacher"}
       /\ p \in {"page_modalites", "page_paiements"} => role \in {"comptable", "economat"}
       /\ p = "page_matieres" => role = "teacher"
       /\ (role = "student" /\ p \in Handlers)
             => p \in {"page_bulletins", "page_listes", "page_inscription"}
       /\ p \in Handlers
             => role \in {"admin", "direction", "comptable", "economat", "teacher", "student"}

\* A run that ends in page_inscription had read a count below 5.
C2_InscriptionBelowCap(s) ==
    (run[s].pc = "running" /\ run'[s].pc = "idle" /\ view'[s].page = "page_inscription")
        => run[s].etablissements_count < 5

\* C2: a page handler is rendered only for a role whose page set holds it:
\* page_notes and page_presences only for admin, direction and teacher;
\* page_modalites and page_paiements only for comptable and economat;
\* page_matieres only for teacher; a student only page_bulletins, page_listes
\* and page_inscription; a session with any other role no handler at all; and
\* page_inscription only in a run whose count of institutions was below 5.
C2_RoleGatedDispatch ==
    /\ [](\A s \in Sessions : C2_PageAllowed(s))
    /\ [][\A s \in Sessions : C2_InscriptionBelowCap(s)]_vars

\* C2 witness: a teacher's session has been dispatched to page_matieres.
C2_Witness ==
    \E s \in Sessions :
        LoggedIn(s) /\ session_state[s].user_role = "teacher" /\ view[s].page = "page_matieres"

\* C3: every upload helper call with a file stores it in exactly one place, the
\* cloud store when LOCAL_STORAGE_MODE is false and local disk otherwise, and
\* returns a reference to that place, except that a failed cloud upload returns
\* None and stores nothing; the cloud store is only tried when the cloud client
\* has been configured; with no file the helper returns None and stores nothing.
C3_UploadRouting ==
    call.fn \in {"handle_photo_upload", "handle_doc_upload", "handle_logo_upload"} =>
        /\ call.file = None => (call.ref = NoRef /\ call.stored = {} /\ ~call.remote)
        /\ (call.file # None /\ LOCAL_STORAGE_MODE)
              => (call.stored = {"disk"} /\ call.ref.kind = "local" /\ ~call.remote)
        /\ (call.file # None /\ ~LOCAL_STORAGE_MODE)
              => \/ call.stored = {"cloud"} /\ call.ref.kind = "cloud"
                 \/ call.stored = {} /\ call.ref = NoRef
        /\ call.remote => cloudinary_configured

\* C4: every class and every payment plan is attached to an existing
\* institution, and every subject to an existing class of an existing institution.
C4_InstitutionScoped ==
    /\ \A c \in db.classes : c.etablissement_id \in Ids(db.etablissement)
    /\ \A m \in db.matieres :
          \E c \in db.classes : c.id = m.classe_id /\ c.etablissement_id \in Ids(db.etablissement)
    /\ \A p \in db.modalites_paiement : p.etablissement_id \in Ids(db.etablissement)

\* C5: every row of notes references an existing student and an existing
\* subject, and the subject belongs to the class the student is enrolled in.
C5_NoteOwnership ==
    \A n \in db.notes :
        \E e \in db.etudiants, m \in db.matieres :
            /\ e.id = n.etudiant_id
            /\ m.id = n.matiere_id
            /\ e.classe_id # NULL
            /\ m.classe_id = e.classe_id

\* A subject mark that is not defined.
Undefined == -1
Marks == {0, 64, 65, 66, 100}

\* classifySubject(mark, threshold): Pass when the mark is defined and at least
\* the threshold, Fail when it is defined and below, Incomplete when undefined.
classifySubject(mark, threshold) ==
    IF mark = Undefined THEN "Incomplete"
    ELSE IF mark >= threshold THEN "Pass" ELSE "Fail"

\* C6: a rendered page_bulletins holds, for each student and each subject of
\* the student's class, the status classifySubject gives the subject's mark
\* against the subject's note_de_passage.
C6_BulletinStatuses ==
    \A s \in Sessions :
        view[s].page = "page_bulletins" =>
            \A e \in db.etudiants, m \in db.matieres :
                (e.classe_id # NULL /\ m.classe_id = e.classe_id) =>
                    \E mark \in Marks \cup {Undefined} :
                        [etudiant_id |-> e.id, matiere_id |-> m.id,
                         status |-> classifySubject(mark, m.note_de_passage)]
                            \in view[s].statuses

\* A session showing a page holds logged_in; after the logout it holds nothing.
C7_PagesNeedLogin(s) ==
    /\ view[s].page \notin {"none", "login_page"} => LoggedIn(s)
    /\ view[s].msg = "logout" => session_state[s] = EmptySession

\* A step that sets logged_in is a login_page submission matching a user row.
C7_LoginSetsSession(s) ==
    ("logged_in" \notin session_state[s].keys /\ "logged_in" \in session_state'[s].keys) =>
        /\ view'[s].page = "login_page"
        /\ \E u \in db.users :
              /\ u.email = view'[s].email
              /\ u.password = hash_password(view'[s].password)
              /\ session_state'[s].user_id = u.id
              /\ session_state'[s].user_role = u.role
              /\ session_state'[s].etablissement_id = u.etablissement_id

\* C7: a page other than the login page is rendered only for a session holding
\* logged_in; logged_in is set only by a login_page submission whose email
\* matches a stored user whose stored hash is the SHA-256 hash of the typed
\* password, and user_id, user_role and etablissement_id are then that row's;
\* after "Déconnexion" the session state is empty, so no page but the login
\* page is rendered until the next successful login.
C7_AuthenticatedAccess ==
    /\ [](\A s \in Sessions : C7_PagesNeedLogin(s))
    /\ [][\A s \in Sessions : C7_LoginSetsSession(s)]_vars

\* C7 witness: a session that had logged in has pressed "Déconnexion": its
\* state is empty and no page is shown.
C7_Witness ==
    \E s \in Sessions : view[s].msg = "logout" /\ session_state[s] = EmptySession

\* C8: the number of rows of etablissement never exceeds 5.
C8_RegistrationCap == Cardinality(db.etablissement) <= 5

\* C9: every institution has at least one user with role admin: a registration
\* commits the institution and its admin account, or neither.
C9_RegistrationAtomic ==
    \A e \in db.etablissement :
        \E u \in db.users : u.etablissement_id = e.id /\ u.role = "admin"

\* C10: init_db() has completed before main() issues its first query, and the
\* SQLite-only statements of init_db never run on a PostgreSQL connection.
C10_BackendAgrees ==
    /\ ~trace.query_before_init
    /\ "postgres" \notin trace.sqlite_only_on

====
